---- MODULE Spec2Model ----
(***************************************************************************)
(* Model of main.py: an uptime bot.  A background thread (ping_loop) runs  *)
(* probe cycles over the URLs of config.json and keeps the debounced       *)
(* health table URL_STATES; Telegram command handlers (add, remove, list,  *)
(* set_interval, get_interval, start) read and rewrite config.json.        *)
(*                                                                         *)
(* Concurrency as the code has it:                                         *)
(*  - the handlers are coroutines of one asyncio event loop and hold no    *)
(*    await between their first statement and their reply, so two handlers *)
(*    never interleave with each other;                                    *)
(*  - ping_loop is a separate thread: a handler can run between any two    *)
(*    statements of a probe cycle.  A handler is one step: its writes to   *)
(*    config.json and URL_STATES follow each other without a blocking call,*)
(*    and each step under CONFIG_LOCK (load, or load + save) is atomic.    *)
(*  - reply holds the answer of the handler that has just run; Replied     *)
(*    hands it over before anything else moves.                            *)
(***************************************************************************)
EXTENDS Integers, Sequences, FiniteSets, TLC

\* ---------------------------------------------------------------- constants
DEFAULT_INTERVAL == 300
MIN_INTERVAL == 30
\* the literal 3 of "fail_count >= 3"
FAIL_THRESHOLD == 3
\* requests.get(url, timeout=10): status codes accepted are 200 <= s < 400
STATUS_LOW == 200
STATUS_HIGH == 400

\* ------------------------------------------------------------------- bounds
\* fail_count is unbounded in the code; failing probes stop at this count
MaxFail == 4
\* the recorded scenario runs this many cycles
ScenarioCycles == 7

\* the recorded run over two urls lasts this many cycles
IsolationCycles == 3

URLS == {"a", "b"}

VARIABLES
    file,        \* content of config.json (DATA_FILE)
    URL_STATES,  \* url -> {is_up, fail_count}; is_up = "absent": no key
    pc,          \* position of the ping_loop thread
    urls,        \* async_ping_cycle: snapshot of the url list
    interval,    \* recorded scenario: the interval the cycle read (it only logs it)
    i,           \* async_ping_cycle: index of the url being handled
    is_up,       \* async_ping_cycle: result of check_health
    state,       \* async_ping_cycle: the record `state` refers to
    linked,      \* whether `state` is still the object stored in URL_STATES
    prev,        \* async_ping_cycle: state["is_up"] before the update
    outbox,      \* notify_status_change calls made for the current probe
    sleep_for,   \* argument of the last time.sleep
    reply,       \* the reply of the handler that has just run
    cycle,       \* recorded scenario: number of cycles started
    probe_log,   \* recorded scenario: probe results so far
    notes        \* recorded scenario: notifications so far

vars == <<file, URL_STATES, pc, urls, interval, i, is_up, state, linked, prev,
          outbox, sleep_for, reply, cycle, probe_log, notes>>

sched == <<pc, urls, interval, i, is_up, state, linked, prev, outbox, sleep_for>>
trace == <<cycle, probe_log, notes>>

Range(s) == {s[k] : k \in 1..Len(s)}

Max(x, y) == IF x >= y THEN x ELSE y

\* ------------------------------------------------------- config.json values
\* A JSON field value: t is its kind, v its payload.
ListOf(s) == [t |-> "list", v |-> s]
NullUrls == [t |-> "null", v |-> <<>>]
AbsentUrls == [t |-> "absent", v |-> <<>>]
IntOf(n) == [t |-> "int", v |-> n]
\* a JSON string holding decimal digits, e.g. "45": int() parses it
NumStr(n) == [t |-> "numstr", v |-> n]
\* a JSON string int() cannot parse, e.g. "soon"
TextInterval == [t |-> "text", v |-> 0]
AbsentInterval == [t |-> "absent", v |-> 0]

\* file kinds: "missing" (no file), "garbage" (json.load raises),
\* "notdict" (JSON, but not an object), "dict"
FileOf(k, u, n) == [kind |-> k, urls |-> u, interval |-> n]
Missing == FileOf("missing", AbsentUrls, AbsentInterval)
Garbage == FileOf("garbage", AbsentUrls, AbsentInterval)
NotDict == FileOf("notdict", AbsentUrls, AbsentInterval)
Dict(u, n) == FileOf("dict", u, n)

DefaultCfg == [urls |-> ListOf(<<>>), interval |-> IntOf(DEFAULT_INTERVAL)]

\* load_config: the dict it returns
load_config(f) ==
    IF f.kind # "dict"
    THEN DefaultCfg
    ELSE [urls |-> IF f.urls.t = "absent" THEN ListOf(<<>>) ELSE f.urls,
          interval |-> IF f.interval.t = "absent"
                       THEN IntOf(DEFAULT_INTERVAL) ELSE f.interval]

\* list(cfg["urls"]) raises TypeError on null
ListRaises(u) == u.t # "list"
\* int(cfg["interval"]) raises on null or on a string that is no number
IntRaises(n) == n.t \notin {"int", "numstr"}

Raised == [raised |-> TRUE, urls |-> <<>>, interval |-> 0]

\* get_urls_and_interval: the conversions are outside load_config's try
get_urls_and_interval(f) ==
    LET cfg == load_config(f) IN
    IF ListRaises(cfg.urls) \/ IntRaises(cfg.interval)
    THEN Raised
    ELSE [raised |-> FALSE, urls |-> cfg.urls.v, interval |-> cfg.interval.v]

\* save_config: open("w") + json.dump inside try/except.  "written": the dump
\* succeeded; "unwritten": open failed, the file is as before; "truncated":
\* open truncated the file and the dump failed.
SaveOutcomes == {"written", "unwritten", "truncated"}

save_config(f, cfg, outcome) ==
    CASE outcome = "written" -> Dict(cfg.urls, cfg.interval)
      [] outcome = "unwritten" -> f
      [] OTHER -> Garbage

NoUrls == [t |-> "none", v |-> <<>>]
NoInterval == [t |-> "none", v |-> 0]

\* the dict update_config builds: load, then overwrite the fields given
updated_cfg(f, newUrls, newInterval) ==
    LET cfg == load_config(f) IN
    [urls |-> IF newUrls.t # "none" THEN newUrls ELSE cfg.urls,
     interval |-> IF newInterval.t # "none" THEN newInterval ELSE cfg.interval]

\* update_config: the file it leaves
update_config(f, newUrls, newInterval, outcome) ==
    save_config(f, updated_cfg(f, newUrls, newInterval), outcome)

\* --------------------------------------------------------------- URL_STATES
NoState == [is_up |-> "absent", fail_count |-> 0]
Fresh == [is_up |-> "None", fail_count |-> 0]

\* URL_STATES.setdefault(url, {"is_up": None, "fail_count": 0})
setdefault(tbl, u) ==
    IF tbl[u].is_up = "absent" THEN [tbl EXCEPT ![u] = Fresh] ELSE tbl

\* the first loop of async_ping_cycle
setdefault_all(tbl, us) ==
    [u \in URLS |-> IF u \in Range(us) /\ tbl[u].is_up = "absent"
                    THEN Fresh ELSE tbl[u]]

\* the last loop of async_ping_cycle
prune(tbl, us) ==
    [u \in URLS |-> IF u \in Range(us) THEN tbl[u] ELSE NoState]

\* ------------------------------------------------------------- check_health
\* what requests.get gives: "error" (any exception) or a status code
Responses == {[err |-> TRUE, status |-> 0]} \cup
             {[err |-> FALSE, status |-> s] : s \in {199, 200, 399, 400}}

\* the body never changes the result: every path after the status test
\* returns True
check_health(resp) ==
    IF resp.err THEN FALSE
    ELSE IF ~(STATUS_LOW <= resp.status /\ resp.status < STATUS_HIGH) THEN FALSE
    ELSE TRUE


\* ------------------------------------------------------------------ replies
\* Every handler starts with is_authorized; a command of another chat
\* returns at once and changes nothing.  The commands below are those that
\* pass.  A handler runs from its first statement to its reply_text in one
\* stretch of the event loop: `reply` shows the message of the handler that
\* has just run, and Replied ends the stretch.  A handler that raises sends
\* nothing: the text of its reply stays "".
Reply(c, t, u, n, l) == [cmd |-> c, text |-> t, url |-> u, n |-> n, lines |-> l]

NoReply == Reply("", "", "", 0, <<>>)

Ready == reply = NoReply

\* --------------------------------------------------- notify_status_change
\* The call itself is the emission.  Whether a message leaves (no
\* ALLOWED_CHAT_ID: return; send_message raising: logged) changes no state of
\* the program.
notification(u, up) == [kind |-> IF up THEN "UP" ELSE "DOWN", url |-> u]

\* ------------------------------------------------------------- ping thread
url == urls[i]

\* an assignment through the reference `state`: it reaches URL_STATES only
\* while the dict `state` refers to is still the one stored under url
WriteState(new) ==
    /\ state' = new
    /\ URL_STATES' = IF linked THEN [URL_STATES EXCEPT ![url] = new]
                     ELSE URL_STATES

\* mutant: any status but Up counts as a recovery
recovers_from_unknown(was) == was # "True"

\* mutant: every successful probe counts as a recovery
recovers_always(was) == TRUE

\* if prev is False
recovers(was) == was = "False"

\* mutant: the threshold is passed, not reached
goes_down_late(count, was) ==
    count > FAIL_THRESHOLD /\ was \in {"True", "None"}

\* mutant: only a record that was Up goes down
goes_down_from_up(count, was) == count >= FAIL_THRESHOLD /\ was = "True"

\* mutant: the threshold is one too low
goes_down_early(count, was) ==
    count >= FAIL_THRESHOLD - 1 /\ was \in {"True", "None"}

\* fail_count >= 3 and prev in (True, None)
goes_down(count, was) == count >= FAIL_THRESHOLD /\ was \in {"True", "None"}

\* ping_loop: run_async(async_ping_cycle(...)); the cycle's first statement
\* urls, interval = get_urls_and_interval().  An exception ends the cycle
\* and is caught by ping_loop's except.
CycleRead(rec) ==
    /\ Ready
    /\ pc = "start"
    /\ rec => cycle < ScenarioCycles
    /\ LET r == get_urls_and_interval(file) IN
       /\ urls' = r.urls
       /\ interval' = IF rec THEN r.interval ELSE 0
       /\ pc' = IF r.raised THEN "reread" ELSE "create"
    /\ cycle' = IF rec THEN cycle + 1 ELSE cycle
    /\ UNCHANGED <<file, URL_STATES, i, is_up, state, linked, prev, outbox,
                   sleep_for, reply, probe_log, notes>>

\* for url in urls: URL_STATES.setdefault(url, ...)
CycleCreate ==
    /\ Ready
    /\ pc = "create"
    /\ URL_STATES' = setdefault_all(URL_STATES, urls)
    /\ i' = IF urls = <<>> THEN 0 ELSE 1
    /\ pc' = IF urls = <<>> THEN "prune" ELSE "probe"
    /\ UNCHANGED <<file, urls, interval, is_up, state, linked, prev, outbox,
                   sleep_for, reply, cycle, probe_log, notes>>

\* is_up = check_health(url)
Probe(rec) ==
    /\ Ready
    /\ pc = "probe"
    /\ \E resp \in Responses :
         /\ check_health(resp) \/ URL_STATES[url].fail_count < MaxFail
         /\ is_up' = check_health(resp)
         /\ probe_log' = IF rec
                         THEN Append(probe_log, [cycle |-> cycle, url |-> url,
                                                 ok |-> check_health(resp)])
                         ELSE probe_log
    /\ outbox' = <<>>
    /\ pc' = "apply"
    /\ UNCHANGED <<file, URL_STATES, urls, interval, i, state, linked, prev,
                   sleep_for, reply, cycle, notes>>

\* state = URL_STATES.setdefault(url, ...); prev = state["is_up"]
ApplyBegin ==
    /\ Ready
    /\ pc = "apply"
    /\ URL_STATES' = setdefault(URL_STATES, url)
    /\ state' = URL_STATES'[url]
    /\ linked' = TRUE
    /\ prev' = state'.is_up
    /\ pc' = IF is_up THEN "up_status" ELSE "fail_count"
    /\ UNCHANGED <<file, urls, interval, i, is_up, outbox, sleep_for,
                   reply, cycle, probe_log, notes>>

\* state["is_up"] = True (both branches of "if prev is False")
SetUp ==
    /\ Ready
    /\ pc = "up_status"
    /\ WriteState([state EXCEPT !.is_up = "True"])
    /\ pc' = "up_count"
    /\ UNCHANGED <<file, urls, interval, i, is_up, linked, prev, outbox,
                   sleep_for, reply, cycle, probe_log, notes>>

\* mutant: a successful probe leaves the count as it is
ResetCountSkipped ==
    /\ Ready
    /\ pc = "up_count"
    /\ WriteState(state)
    /\ pc' = IF recovers(prev) THEN "notify" ELSE "advance"
    /\ UNCHANGED <<file, urls, interval, i, is_up, linked, prev, outbox,
                   sleep_for, reply, cycle, probe_log, notes>>

\* state["fail_count"] = 0; a notification follows only if prev is False
ResetCount ==
    /\ Ready
    /\ pc = "up_count"
    /\ WriteState([state EXCEPT !.fail_count = 0])
    /\ pc' = IF recovers(prev) THEN "notify" ELSE "advance"
    /\ UNCHANGED <<file, urls, interval, i, is_up, linked, prev, outbox,
                   sleep_for, reply, cycle, probe_log, notes>>

\* state["fail_count"] += 1, then the test of the threshold
CountFailure ==
    /\ Ready
    /\ pc = "fail_count"
    /\ WriteState([state EXCEPT !.fail_count = @ + 1])
    /\ pc' = IF goes_down(state'.fail_count, prev) THEN "down_status"
             ELSE "advance"
    /\ UNCHANGED <<file, urls, interval, i, is_up, linked, prev, outbox,
                   sleep_for, reply, cycle, probe_log, notes>>

\* state["is_up"] = False
SetDown ==
    /\ Ready
    /\ pc = "down_status"
    /\ WriteState([state EXCEPT !.is_up = "False"])
    /\ pc' = "notify"
    /\ UNCHANGED <<file, urls, interval, i, is_up, linked, prev, outbox,
                   sleep_for, reply, cycle, probe_log, notes>>

\* await notify_status_change(application, url, True / False)
Notify(rec) ==
    /\ Ready
    /\ pc = "notify"
    /\ outbox' = Append(outbox, notification(url, is_up))
    /\ notes' = IF rec
                THEN Append(notes, [kind |-> notification(url, is_up).kind,
                                    url |-> url, cycle |-> cycle])
                ELSE notes
    /\ pc' = "advance"
    /\ UNCHANGED <<file, URL_STATES, urls, interval, i, is_up, state, linked,
                   prev, sleep_for, reply, cycle, probe_log>>

\* mutant: a notification ends the loop over the urls
AdvanceStopsAfterNotification ==
    /\ Ready
    /\ pc = "advance"
    /\ i' = i + 1
    /\ pc' = IF i < Len(urls) /\ outbox = <<>> THEN "probe" ELSE "prune"
    /\ is_up' = FALSE
    /\ state' = NoState
    /\ linked' = FALSE
    /\ prev' = "absent"
    /\ outbox' = <<>>
    /\ UNCHANGED <<file, URL_STATES, urls, interval, sleep_for, reply,
                   cycle, probe_log, notes>>

\* the next url of "for url in urls", or the end of the loop
Advance ==
    /\ Ready
    /\ pc = "advance"
    /\ i' = i + 1
    /\ pc' = IF i < Len(urls) THEN "probe" ELSE "prune"
    /\ is_up' = FALSE
    /\ state' = NoState
    /\ linked' = FALSE
    /\ prev' = "absent"
    /\ outbox' = <<>>
    /\ UNCHANGED <<file, URL_STATES, urls, interval, sleep_for, reply,
                   cycle, probe_log, notes>>

\* for u in list(URL_STATES.keys()): if u not in urls: del URL_STATES[u]
Prune ==
    /\ Ready
    /\ pc = "prune"
    /\ URL_STATES' = prune(URL_STATES, urls)
    /\ urls' = <<>>
    /\ i' = 0
    /\ pc' = "reread"
    /\ UNCHANGED <<file, interval, is_up, state, linked, prev, outbox,
                   sleep_for, reply, cycle, probe_log, notes>>

\* _, interval = get_urls_and_interval() of ping_loop, outside its try: an
\* exception here ends the thread
Reread ==
    /\ Ready
    /\ pc = "reread"
    /\ LET r == get_urls_and_interval(file) IN
       /\ pc' = IF r.raised THEN "dead" ELSE "sleep"
       /\ sleep_for' = IF r.raised THEN 0 ELSE Max(MIN_INTERVAL, r.interval)
    /\ UNCHANGED <<file, URL_STATES, urls, interval, i, is_up, state, linked,
                   prev, outbox, reply, cycle, probe_log, notes>>

\* time.sleep returns
Wake ==
    /\ Ready
    /\ pc = "sleep"
    /\ pc' = "start"
    /\ sleep_for' = 0
    /\ UNCHANGED <<file, URL_STATES, urls, interval, i, is_up, state, linked,
                   prev, outbox, reply, cycle, probe_log, notes>>


\* ------------------------------------------------------- command handlers
\* no argument after the command: context.args is empty
NoArg == ""

\* urls.remove(url): the first occurrence goes
RECURSIVE list_remove(_, _)
list_remove(s, u) ==
    IF s = <<>> THEN <<>>
    ELSE IF Head(s) = u THEN Tail(s)
    ELSE <<Head(s)>> \o list_remove(Tail(s), u)

\* mutant: only the first entry is compared
in_list_first(u, l) == l # <<>> /\ u = l[1]

\* url in urls
in_list(u, l) == u \in Range(l)

\* a handler's pop of u, seen by the cycle that holds u's dict in `state`
Unlink(u) == IF i \in 1..Len(urls) /\ urls[i] = u THEN FALSE ELSE linked

\* add_url.  The ping thread reads the file and the table in steps of its
\* own; the handler's two writes (file, table) are taken together.
AddUrl(u) ==
    /\ Ready
    /\ LET r == get_urls_and_interval(file) IN
       IF u = NoArg
       THEN /\ reply' = Reply("add", "Usage", "", 0, <<>>)
            /\ UNCHANGED <<file, URL_STATES, sched, trace>>
       ELSE IF r.raised
       THEN /\ reply' = Reply("add", "", u, 0, <<>>)
            /\ UNCHANGED <<file, URL_STATES, sched, trace>>
       ELSE IF in_list(u, r.urls)
       THEN /\ reply' = Reply("add", "URL already in list.", u, 0, <<>>)
            /\ UNCHANGED <<file, URL_STATES, sched, trace>>
       ELSE /\ \E o \in SaveOutcomes :
                 file' = update_config(file, ListOf(Append(r.urls, u)),
                                       NoInterval, o)
            /\ URL_STATES' = setdefault(URL_STATES, u)
            /\ reply' = Reply("add", "Added", u, 0, <<>>)
            /\ UNCHANGED <<sched, trace>>

\* mutant: the health record is popped before the url is looked up
RemoveUrlPopsFirst(u) ==
    /\ Ready
    /\ LET r == get_urls_and_interval(file) IN
       IF u = NoArg
       THEN /\ reply' = Reply("remove", "Usage", "", 0, <<>>)
            /\ UNCHANGED <<file, URL_STATES, sched, trace>>
       ELSE IF r.raised
       THEN /\ reply' = Reply("remove", "", u, 0, <<>>)
            /\ UNCHANGED <<file, URL_STATES, sched, trace>>
       ELSE IF ~in_list(u, r.urls)
       THEN /\ reply' = Reply("remove", "URL not found in list.", u, 0, <<>>)
            /\ URL_STATES' = [URL_STATES EXCEPT ![u] = NoState]
            /\ UNCHANGED <<file, sched, trace>>
       ELSE /\ \E o \in SaveOutcomes :
                 file' = update_config(file, ListOf(list_remove(r.urls, u)),
                                       NoInterval, o)
            /\ URL_STATES' = [URL_STATES EXCEPT ![u] = NoState]
            /\ linked' = Unlink(u)
            /\ reply' = Reply("remove", "Removed", u, 0, <<>>)
            /\ UNCHANGED <<pc, urls, interval, i, is_up, state, prev, outbox,
                           sleep_for, trace>>

\* remove_url
RemoveUrl(u) ==
    /\ Ready
    /\ LET r == get_urls_and_interval(file) IN
       IF u = NoArg
       THEN /\ reply' = Reply("remove", "Usage", "", 0, <<>>)
            /\ UNCHANGED <<file, URL_STATES, sched, trace>>
       ELSE IF r.raised
       THEN /\ reply' = Reply("remove", "", u, 0, <<>>)
            /\ UNCHANGED <<file, URL_STATES, sched, trace>>
       ELSE IF ~in_list(u, r.urls)
       THEN /\ reply' = Reply("remove", "URL not found in list.", u, 0, <<>>)
            /\ UNCHANGED <<file, URL_STATES, sched, trace>>
       ELSE /\ \E o \in SaveOutcomes :
                 file' = update_config(file, ListOf(list_remove(r.urls, u)),
                                       NoInterval, o)
            /\ URL_STATES' = [URL_STATES EXCEPT ![u] = NoState]
            /\ linked' = Unlink(u)
            /\ reply' = Reply("remove", "Removed", u, 0, <<>>)
            /\ UNCHANGED <<pc, urls, interval, i, is_up, state, prev, outbox,
                           sleep_for, trace>>

\* context.args[0] of set_interval: nothing, text int() rejects, or a number
NoSeconds == [t |-> "none", v |-> 0]
TextSeconds == [t |-> "text", v |-> 0]
Seconds(n) == [t |-> "int", v |-> n]

SetArgs == {NoSeconds, TextSeconds} \cup
           {Seconds(n) : n \in {MIN_INTERVAL - 1, MIN_INTERVAL}}

\* set_interval
SetInterval(a) ==
    /\ Ready
    /\ IF a.t = "none"
       THEN /\ reply' = Reply("set_interval", "Usage", "", 0, <<>>)
            /\ UNCHANGED file
       ELSE IF a.t = "text"
       THEN /\ reply' = Reply("set_interval", "Interval must be an integer.",
                              "", 0, <<>>)
            /\ UNCHANGED file
       ELSE IF a.v < MIN_INTERVAL
       THEN /\ reply' = Reply("set_interval", "Minimum interval", "",
                              MIN_INTERVAL, <<>>)
            /\ UNCHANGED file
       ELSE /\ \E o \in SaveOutcomes :
                 file' = update_config(file, NoUrls, IntOf(a.v), o)
            /\ reply' = Reply("set_interval", "Ping interval updated", "",
                              updated_cfg(file, NoUrls, IntOf(a.v)).interval.v,
                              <<>>)
    /\ UNCHANGED <<URL_STATES, sched, trace>>

\* get_interval
GetInterval ==
    /\ Ready
    /\ LET r == get_urls_and_interval(file) IN
       reply' = IF r.raised THEN Reply("get_interval", "", "", 0, <<>>)
                ELSE Reply("get_interval", "Current ping interval", "",
                           r.interval, <<>>)
    /\ UNCHANGED <<file, URL_STATES, sched, trace>>

\* start
Start ==
    /\ Ready
    /\ LET r == get_urls_and_interval(file) IN
       reply' = IF r.raised THEN Reply("start", "", "", 0, <<>>)
                ELSE Reply("start", "Uptime bot online.", "", r.interval, <<>>)
    /\ UNCHANGED <<file, URL_STATES, sched, trace>>

\* the [UP] / [DOWN] / [UNKNOWN] of list_urls;
\* URL_STATES.get(u, {"is_up": None}) gives None for a missing key
status_text(v) ==
    IF v = "True" THEN "UP" ELSE IF v = "False" THEN "DOWN" ELSE "UNKNOWN"

\* list_urls
ListUrls ==
    /\ Ready
    /\ LET r == get_urls_and_interval(file) IN
       reply' = IF r.raised THEN Reply("list", "", "", 0, <<>>)
                ELSE IF r.urls = <<>>
                THEN Reply("list", "No URLs configured.", "", r.interval, <<>>)
                ELSE Reply("list", "Current URLs:", "", r.interval,
                           [k \in 1..Len(r.urls) |->
                              [url |-> r.urls[k],
                               s |-> status_text(URL_STATES[r.urls[k]].is_up)]])
    /\ UNCHANGED <<file, URL_STATES, sched, trace>>

\* reply_text returns: the handler is over
Replied ==
    /\ ~Ready
    /\ reply' = NoReply
    /\ UNCHANGED <<file, URL_STATES, sched, trace>>

\* ------------------------------------------------------------ start-up
\* main: if not DATA_FILE.exists(): save_config(default)
booted(f) ==
    IF f.kind = "missing"
    THEN {save_config(f, DefaultCfg, o) : o \in SaveOutcomes}
    ELSE {f}

\* url lists without duplicates
UrlLists == {<<>>, <<"a">>, <<"b">>, <<"a", "b">>, <<"b", "a">>}

\* records this program writes
OwnFiles ==
    {Dict(ListOf(s), IntOf(n)) :
        s \in UrlLists, n \in {MIN_INTERVAL, DEFAULT_INTERVAL}}
    \cup {Missing, Garbage}

\* what the program may find at start-up: its own records, and records
\* with fields of another kind
AnyFiles ==
    OwnFiles \cup {NotDict} \cup
    {Dict(u, n) :
        u \in {AbsentUrls, NullUrls, ListOf(<<>>), ListOf(<<"a">>)},
        n \in {AbsentInterval, TextInterval, NumStr(45), IntOf(10),
               IntOf(DEFAULT_INTERVAL)}}

InitRest ==
    /\ URL_STATES = [u \in URLS |-> NoState]
    /\ pc = "start"
    /\ urls = <<>>
    /\ interval = 0
    /\ i = 0
    /\ is_up = FALSE
    /\ state = NoState
    /\ linked = FALSE
    /\ prev = "absent"
    /\ outbox = <<>>
    /\ sleep_for = 0
    /\ reply = NoReply
    /\ cycle = 0
    /\ probe_log = <<>>
    /\ notes = <<>>

Init ==
    /\ file \in UNION {booted(f) : f \in AnyFiles}
    /\ InitRest

InitScenario ==
    /\ file = Dict(ListOf(<<"a">>), IntOf(DEFAULT_INTERVAL))
    /\ InitRest

Cycle(rec) ==
    \/ CycleRead(rec)
    \/ CycleCreate
    \/ Probe(rec)
    \/ ApplyBegin
    \/ SetUp
    \/ ResetCount
    \/ CountFailure
    \/ SetDown
    \/ Notify(rec)
    \/ Advance
    \/ Prune
    \/ Reread
    \/ Wake

Next ==
    \/ Cycle(FALSE)
    \/ \E u \in URLS \cup {NoArg} : AddUrl(u)
    \/ \E u \in URLS \cup {NoArg} : RemoveUrl(u)
    \/ \E a \in SetArgs : SetInterval(a)
    \/ GetInterval
    \/ Start
    \/ ListUrls
    \/ Replied

NextScenario ==
    \/ Cycle(TRUE)
    \/ \E a \in SetArgs : SetInterval(a)
    \/ GetInterval
    \/ Start
    \/ ListUrls
    \/ Replied

\* two urls stored, removals handled under the cycles that are recorded
InitIsolation ==
    /\ file = Dict(ListOf(<<"a", "b">>), IntOf(DEFAULT_INTERVAL))
    /\ InitRest

NextIsolation ==
    \/ cycle < IsolationCycles /\ CycleRead(TRUE)
    \/ CycleCreate
    \/ Probe(TRUE)
    \/ ApplyBegin
    \/ SetUp
    \/ ResetCount
    \/ CountFailure
    \/ SetDown
    \/ Notify(TRUE)
    \/ Advance
    \/ Prune
    \/ Reread
    \/ Wake
    \/ \E u \in URLS : RemoveUrl(u)
    \/ Replied

Spec == Init /\ [][Next]_vars

SpecScenario == InitScenario /\ [][NextScenario]_vars


\* ================================================================== claims
Down(u) == [kind |-> "DOWN", url |-> u]
Up(u) == [kind |-> "UP", url |-> u]

\* the update for the probe of url is complete
Applied == pc = "advance"

\* C1 (debounce): once a failed probe has been applied to a record that was
\* Up, the record is still Up and nothing was notified while its count is 1
\* or 2; at count 3 it is Down and exactly one DOWN was notified; a record
\* that was Down stays Down and nothing is notified.  Unless a handler
\* popped it meanwhile, the record is the one stored for the url.
DebounceLaw ==
    (Applied /\ ~is_up) =>
        /\ (prev = "True" /\ state.fail_count \in {1, 2}) =>
              (state.is_up = "True" /\ outbox = <<>>)
        /\ (prev = "True" /\ state.fail_count = 3) =>
              (state.is_up = "False" /\ outbox = <<Down(url)>>)
        /\ prev = "False" =>
              (state.is_up = "False" /\ state.fail_count > 3 /\ outbox = <<>>)
        /\ linked => URL_STATES[url] = state

\* the third failure in a row of a record that was Up
DebounceWitness ==
    /\ Applied /\ ~is_up /\ prev = "True" /\ linked
    /\ URL_STATES[url] = [is_up |-> "False", fail_count |-> 3]
    /\ outbox = <<Down(url)>>

\* C2 (recovery): once a successful probe has been applied to a record that
\* was Down, the record is Up with count 0 and exactly one UP was notified;
\* applied to a record that was Up or Unknown, nothing was notified.
RecoveryLaw ==
    (Applied /\ is_up) =>
        /\ state = [is_up |-> "True", fail_count |-> 0]
        /\ prev = "False" => outbox = <<Up(url)>>
        /\ prev \in {"True", "None"} => outbox = <<>>
        /\ linked => URL_STATES[url] = state

\* a record that was Down, after one successful probe
RecoveryWitness ==
    /\ Applied /\ is_up /\ prev = "False" /\ linked
    /\ URL_STATES[url] = [is_up |-> "True", fail_count |-> 0]
    /\ outbox = <<Up(url)>>

\* C3 (first observation): for a record that was Unknown, a successful probe
\* leaves it Up with nothing notified; a failed probe leaves it Unknown with
\* nothing notified while its count is 1 or 2, and at count 3 it is Down and
\* exactly one DOWN was notified.
FirstObservationLaw ==
    (Applied /\ prev = "None") =>
        /\ is_up => (state.is_up = "True" /\ outbox = <<>>)
        /\ (~is_up /\ state.fail_count \in {1, 2}) =>
              (state.is_up = "None" /\ outbox = <<>>)
        /\ (~is_up /\ state.fail_count = 3) =>
              (state.is_up = "False" /\ outbox = <<Down(url)>>)
        /\ ~is_up => state.fail_count \in {1, 2, 3}

\* the third failure in a row of a url never seen up
FirstObservationWitness ==
    /\ Applied /\ ~is_up /\ prev = "None" /\ linked
    /\ URL_STATES[url] = [is_up |-> "False", fail_count |-> 3]
    /\ outbox = <<Down(url)>>


\* ---- C4: the scenario of six cycles
\* success, success, failure, failure, failure, success
Script == <<TRUE, TRUE, FALSE, FALSE, FALSE, TRUE>>

\* so far, cycle j probed "a" once with the result the script gives
OnScript ==
    /\ Len(probe_log) <= Len(Script)
    /\ \A j \in 1..Len(probe_log) :
          probe_log[j] = [cycle |-> j, url |-> "a", ok |-> Script[j]]

\* the result of the last probe is being applied (up to its notification)
Applying ==
    /\ cycle = Len(probe_log)
    /\ pc \in {"apply", "up_status", "up_count", "fail_count", "down_status",
               "notify"}

DownIn5 == [kind |-> "DOWN", url |-> "a", cycle |-> 5]
UpIn6 == [kind |-> "UP", url |-> "a", cycle |-> 6]

\* C4: while the probes of the single url "a" follow the script, cycle by
\* cycle from an empty table, nothing is notified before cycle 5, the probe
\* of cycle 5 is answered by DOWN, the probe of cycle 6 by UP, and these two
\* are all the notifications there are.
ScenarioNotifications ==
    OnScript =>
        /\ Len(probe_log) < 5 => notes = <<>>
        /\ Len(probe_log) = 5 =>
              notes = IF Applying THEN <<>> ELSE <<DownIn5>>
        /\ Len(probe_log) = 6 =>
              notes = IF Applying THEN <<DownIn5>> ELSE <<DownIn5, UpIn6>>

\* the six cycles are over and the thread sleeps
ScenarioWitness ==
    /\ OnScript /\ Len(probe_log) = 6 /\ pc = "sleep" /\ cycle = 6
    /\ notes = <<DownIn5, UpIn6>>


\* ---- the stored configuration, as get_urls_and_interval reads it
Readable == ~get_urls_and_interval(file).raised
StoredUrls == get_urls_and_interval(file).urls
StoredInterval == get_urls_and_interval(file).interval

NoDup(s) == \A j, k \in 1..Len(s) : s[j] = s[k] => j = k

SetIntervalStores ==
    [][(Ready /\ Readable /\ reply'.cmd = "set_interval")
       => /\ reply'.text = "Ping interval updated" =>
                (~get_urls_and_interval(file').raised
                 /\ get_urls_and_interval(file').interval = reply'.n)
          /\ reply'.text = "Minimum interval" => file' = file]_vars

\* C8 (interval invariant): every interval a caller of get_urls_and_interval
\* is given is at least 30.
IntervalAtLeastMin ==
    (reply.cmd \in {"get_interval", "start", "list"} /\ reply.text # "")
        => reply.n >= 30

\* C9 (no lost updates): every accepted mutation is applied to the stored
\* configuration as it stood: "Added" appends the url, "Removed" takes it
\* out, "Ping interval updated" sets the interval, and each leaves the
\* other field alone; so two accepted adds end with both urls stored.
NoLostUpdate ==
    [][(Ready /\ Readable) =>
          /\ (reply'.cmd = "add" /\ reply'.text = "Added") =>
                (/\ ~get_urls_and_interval(file').raised
                 /\ get_urls_and_interval(file').urls
                      = Append(StoredUrls, reply'.url)
                 /\ get_urls_and_interval(file').interval = StoredInterval)
          /\ (reply'.cmd = "remove" /\ reply'.text = "Removed") =>
                (/\ ~get_urls_and_interval(file').raised
                 /\ Range(get_urls_and_interval(file').urls)
                      = Range(StoredUrls) \ {reply'.url}
                 /\ get_urls_and_interval(file').interval = StoredInterval)
          /\ (reply'.cmd = "set_interval"
                 /\ reply'.text = "Ping interval updated") =>
                (/\ ~get_urls_and_interval(file').raised
                 /\ get_urls_and_interval(file').urls = StoredUrls)]_vars

\* C10 (read never fails): get_interval and list, which only read, always
\* answer, and over a missing or unparseable record they answer with the
\* default configuration: no urls, interval 300.
ReadNeverFails ==
    /\ reply.cmd \in {"get_interval", "list"} => reply.text # ""
    /\ (reply.cmd = "get_interval" /\ file.kind # "dict") => reply.n = 300
    /\ (reply.cmd = "list" /\ file.kind # "dict") =>
          (reply.text = "No URLs configured." /\ reply.n = 300)

\* ---- C11: a mutation whose write failed
\* the command the reply r answers was accepted as a mutation
Accepted(r) ==
    \/ r.cmd = "add" /\ r.text = "Added"
    \/ r.cmd = "remove" /\ r.text = "Removed"
    \/ r.cmd = "set_interval" /\ r.text = "Ping interval updated"

\* the configuration (urls, interval) after the mutation r answers, applied
\* to the configuration c
Mutated(c, r) ==
    [raised |-> FALSE,
     urls |-> IF r.cmd = "add" THEN Append(c.urls, r.url)
              ELSE IF r.cmd = "remove"
              THEN SelectSeq(c.urls, LAMBDA x : x # r.url)
              ELSE c.urls,
     interval |-> IF r.cmd = "set_interval" THEN r.n ELSE c.interval]

\* C11 (failed durable write): when a mutation is accepted and its write
\* failed (config.json is as before, or was truncated), the mutated
\* configuration is still the current one: the next get_urls_and_interval
\* returns it, not the configuration of before.
FailedWriteKeepsValue ==
    [][(Ready /\ Readable /\ Accepted(reply')
           /\ (file' = file \/ file'.kind = "garbage"))
       => get_urls_and_interval(file')
             = Mutated(get_urls_and_interval(file), reply')]_vars

\* C12 (the scheduler loop has no terminal state): the ping thread is never
\* in a position from which no further cycle starts, whatever config.json
\* holds.
SchedulerNeverStops == pc # "dead"

SpecIsolation == InitIsolation /\ [][NextIsolation]_vars

\* ---- C13: the probes of one cycle
\* the urls probed so far in the cycle that is running, in the order probed
ProbedThisCycle ==
    LET mine == SelectSeq(probe_log, LAMBDA e : e.cycle = cycle)
    IN  [k \in 1..Len(mine) |-> mine[k].url]

\* C13 (isolation within a cycle): the urls probed in a cycle are those of
\* the snapshot the cycle read, each once and in stored order: before the
\* probe of urls[i] they are urls[1..i-1], after it urls[1..i], and at the
\* end of the loop the whole snapshot, whatever the results were, whatever
\* was notified and whatever was removed meanwhile; and no url is notified
\* about twice in one cycle.
IsolationLaw ==
    /\ pc = "create" => ProbedThisCycle = <<>>
    /\ pc = "probe" => ProbedThisCycle = SubSeq(urls, 1, i - 1)
    /\ pc \in {"apply", "up_status", "up_count", "fail_count", "down_status",
               "notify", "advance"} => ProbedThisCycle = SubSeq(urls, 1, i)
    /\ pc = "prune" => ProbedThisCycle = urls
    /\ \A j, k \in 1..Len(notes) :
          (notes[j].url = notes[k].url /\ notes[j].cycle = notes[k].cycle)
              => j = k

\* the third cycle is over: "a" failed for the third time and DOWN was
\* notified, and "b" was probed after that all the same
IsolationWitness ==
    /\ pc = "prune" /\ cycle = 3 /\ urls = <<"a", "b">>
    /\ notes = <<[kind |-> "DOWN", url |-> "a", cycle |-> 3]>>
    /\ Len(probe_log) = 6
    /\ probe_log[5] = [cycle |-> 3, url |-> "a", ok |-> FALSE]
    /\ probe_log[6].url = "b"

\* C14 (pacing): the sleep after a cycle lasts max(30, interval) for the
\* interval the cycle read in its first statement, also when set_interval
\* was handled while the cycle ran; and it lasts at least 30 seconds.
PacingLaw ==
    pc = "sleep" =>
        (sleep_for = Max(30, interval) /\ sleep_for >= 30)

\* ---- C15: the table at the first probe of a cycle
\* the urls that have a health record
Keys == {u \in URLS : URL_STATES[u].is_up # "absent"}

\* C15 (reconciliation at cycle start): when the first probe of a cycle is
\* issued, the table holds no record of a url that is absent from the
\* snapshot the cycle read: the record of a url removed while the cycle
\* before ran has been deleted.
ReconciledAtFirstProbe ==
    (pc = "probe" /\ i = 1) => Keys \subseteq Range(urls)

\* C16 (health is destroyed on removal): once remove(u) has been answered
\* "Removed", u has no health record, and while u is not stored only an add
\* of u gives it one again: no step of a cycle that is running does.
DestroyedOnRemoval ==
    [][\A u \in URLS :
          /\ (Ready /\ reply' = Reply("remove", "Removed", u, 0, <<>>))
                => URL_STATES'[u] = NoState
          /\ (file.kind = "dict" /\ Readable /\ u \notin Range(StoredUrls)
                 /\ URL_STATES[u] = NoState /\ URL_STATES'[u] # NoState)
                => (reply'.cmd = "add" /\ reply'.url = u)]_vars

\* ---- C17: what list_urls can read while a probe result is applied
\* the record stored for u holds part of an update: the new status with the
\* old count (after state["is_up"] = True, before the count is reset) or the
\* new count with the old status (after the count reached the threshold,
\* before state["is_up"] = False)
PartlyApplied(u) ==
    /\ linked /\ i \in 1..Len(urls) /\ urls[i] = u
    /\ \/ pc = "up_count" /\ prev # "True" /\ state.fail_count # 0
       \/ pc = "down_status"

\* C17 (consistent health snapshot): every record list_urls reads for a url
\* it shows is a record as it stood before or after one whole application
\* of a probe result, never one that holds part of an update.
ListReadsWholeRecords ==
    (reply.cmd = "list" /\ reply.text = "Current URLs:") =>
        \A k \in 1..Len(reply.lines) : ~PartlyApplied(reply.lines[k].url)

\* ---- C18: status and count of the records at rest
\* the result of a probe is being written to the record stored for u
BeingApplied(u) ==
    /\ linked /\ i \in 1..Len(urls) /\ urls[i] = u
    /\ pc \in {"up_status", "up_count", "fail_count", "down_status"}

\* C18 (status and counter): every record no probe result is being applied
\* to is Down exactly if its count is at least 3: a record that is Up or
\* Unknown has count 0, 1 or 2.
StatusMatchesCount ==
    \A u \in URLS :
        (URL_STATES[u] # NoState /\ ~BeingApplied(u)) =>
            /\ URL_STATES[u].is_up = "False" <=> URL_STATES[u].fail_count >= 3
            /\ URL_STATES[u].is_up \in {"True", "None"} =>
                  URL_STATES[u].fail_count \in {0, 1, 2}

\* between two cycles: one url is Down after more failures than the
\* threshold, the other was never seen up and has failed twice
StatusMatchesCountWitness ==
    /\ pc = "sleep"
    /\ URL_STATES["a"] = [is_up |-> "False", fail_count |-> 4]
    /\ URL_STATES["b"] = [is_up |-> "None", fail_count |-> 2]

\* ---- C19: the order of the notifications for one url
\* the kinds of the notifications for u so far, in the order emitted
KindsFor(u) ==
    LET mine == SelectSeq(notes, LAMBDA e : e.url = u)
    IN  [k \in 1..Len(mine) |-> mine[k].kind]

\* C19 (alternation): the notifications for a url that stays stored are
\* DOWN, UP, DOWN, UP, ... in this order, the first one DOWN: no UP unless
\* the last one before it was DOWN, no two DOWN without an UP in between.
AlternatingNotifications ==
    \A u \in URLS :
        \A k \in 1..Len(KindsFor(u)) :
            KindsFor(u)[k] = IF k % 2 = 1 THEN "DOWN" ELSE "UP"

\* "a" went down, came back and went down again
AlternatingWitness ==
    /\ KindsFor("a") = <<"DOWN", "UP", "DOWN">>
    /\ "a" \in Range(StoredUrls)

\* C20 (frame of the mutations): an accepted add or remove leaves the
\* stored interval as it was, and an accepted set_interval leaves the stored
\* url list as it was, members and order.
FrameOfMutations ==
    [][(Ready /\ Accepted(reply')) =>
          /\ reply'.cmd \in {"add", "remove"} =>
                load_config(file').interval = load_config(file).interval
          /\ reply'.cmd = "set_interval" =>
                load_config(file').urls = load_config(file).urls]_vars

====
